---- MODULE Spec2Model ----
(***************************************************************************)
(* A model of the {packet, N} framing protocol of packetn.go: the protocol *)
(* descriptor PNProtocol, the writer PNWriter with WritePacket and the     *)
(* reader PNReader with ReadPacket, over connections that are reliable     *)
(* ordered byte streams which may deliver short reads, fail, or be closed. *)
(***************************************************************************)
EXTENDS Integers, Sequences, FiniteSets, TLC

\* ------------------------------------------------------------------ bounds
MaxLen == 1          \* length of the pattern payload
MaxWrites == 2       \* WritePacket calls per writer thread
MaxM == 1            \* the limit assigned to the descriptor's MaxPacketSize
MaxFaults == 1       \* failures a failing transport reports in a run
MaxFaultyWrites == 1 \* WritePacket calls per thread over a failing transport
MaxParWrites == 1    \* WritePacket calls per thread on each of two connections
MaxPeerSends == 2    \* chunks of bytes a foreign peer puts on the connection
MaxReentryWrites == 1 \* WritePacket calls per thread on a writer two threads use
MaxSharedWrites == 1 \* WritePacket calls per writer on a connection two writers use
MaxWrapExtra == 2    \* bytes by which a payload exceeds the range of its header
MaxWrapWrites == 1   \* WritePacket calls with such payloads

\* ------------------------------------------------------------ identifiers
WriterIds == {1, 2}          \* PNWriter instances
ReaderIds == {1, 2}          \* PNReader instances
ConnIds == {1, 2}            \* net.Conn connections
WThreads == {1, 2}           \* execution contexts calling WritePacket
RThreads == {1, 2}           \* execution contexts calling ReadPacket

Widths == {1, 2, 4, 8}       \* the cases of the switch in NewPNWriter/NewPNReader
InvalidWidths == {0, 3}      \* sample widths that fall to the default case
ByteOrders == {"BigEndian", "LittleEndian"}

\* error values; "nil" is the absence of an error
PacketTooLargeError == "PacketTooLargeError"
EOF == "EOF"
ErrUnexpectedEOF == "ErrUnexpectedEOF"
ErrConn == "ErrConn"         \* any other failure of conn.Read / conn.Write
ErrClosed == "ErrClosed"     \* conn.Write on a closed connection

NoProto == [made |-> FALSE]
NoInst == [made |-> FALSE]
NoSize == 0 - 2              \* ReadPacket has not decoded a header yet
NegSize == 0 - 1             \* a decoded size below zero (int(uint64) wrapped)
\* 2^31 - 1: every decoded size from there on is held as Huge
Huge == (64 * 256 * 256 * 256 - 1) * 2 + 1

Min(a, b) == IF a < b THEN a ELSE b

\* ------------------------------------------------------------- payloads
Hello == <<104, 101, 108, 108, 111>>
PatA(L) == [i \in 1..L |-> i]
\* the OutBuffer contents handed to WritePacket: nothing, a pattern, "hello"
Payloads == {<<>>, PatA(MaxLen), Hello}

\* the number of lengths a header of n bytes can tell apart
HeadRange(n) == 256 ^ n

\* a payload that is e bytes longer than a one-byte header can express: the
\* bytes 1..e and then zeros
WrapPayload(e) == [i \in 1..(HeadRange(1) + e) |-> IF i <= e THEN i ELSE 0]
WrapPayloads == {WrapPayload(e) : e \in 0..MaxWrapExtra}

\* ---------------------------------------------------------- header codec
RECURSIVE Reverse(_)
Reverse(s) == IF s = <<>> THEN <<>> ELSE Append(Reverse(Tail(s)), Head(s))

\* the i-th base-256 digit of v (i = 0 is the least significant); payload
\* lengths of the model are below 2^31, so the digits from the fifth on are 0
Digit(v, i) == IF i >= 4 THEN 0 ELSE (v \div (256 ^ i)) % 256

\* binary.ByteOrder.PutUint16/32/64 on a buffer of k bytes
PutUint(bo, v, k) ==
  LET le == [i \in 1..k |-> Digit(v, i - 1)]
  IN IF bo = "BigEndian" THEN Reverse(le) ELSE le

\* the encodeHead closure chosen by NewPNWriter for width n
EncodeHeadClamped(n, bo, size) ==
  CASE n = 1 -> <<Min(size, 255)>>
    [] n = 2 -> PutUint(bo, Min(size, 65535), 2)
    [] n = 4 -> PutUint(bo, size, 4)
    [] n = 8 -> PutUint(bo, size, 8)
EncodeHeadLE(n, bo, size) ==
  CASE n = 1 -> <<size % 256>>
    [] n = 2 -> PutUint("LittleEndian", size % 65536, 2)
    [] n = 4 -> PutUint("LittleEndian", size, 4)
    [] n = 8 -> PutUint("LittleEndian", size, 8)
EncodeHead(n, bo, size) ==
  CASE n = 1 -> <<size % 256>>
    [] n = 2 -> PutUint(bo, size % 65536, 2)
    [] n = 4 -> PutUint(bo, size, 4)
    [] n = 8 -> PutUint(bo, size, 8)

\* the unsigned value of big-endian digits, saturating at Huge
RECURSIVE UintBE(_, _)
UintBE(acc, s) ==
  IF s = <<>> THEN acc
  ELSE IF acc > (Huge - Head(s)) \div 256 THEN Huge
  ELSE UintBE(acc * 256 + Head(s), Tail(s))

\* binary.ByteOrder.Uint16/32/64
Uint(bo, b) == UintBE(0, IF bo = "BigEndian" THEN b ELSE Reverse(b))

\* the decodeHead closure chosen by NewPNReader for width n; int is 64 bits,
\* so only a width-8 header with its top bit set converts to a negative int
DecodeHeadBE(n, bo, head) ==
  CASE n = 1 -> head[1]
    [] n = 2 -> Uint("BigEndian", head)
    [] n = 4 -> Uint("BigEndian", head)
    [] n = 8 -> IF head[1] >= 128 THEN NegSize ELSE Uint("BigEndian", head)
DecodeHead(n, bo, head) ==
  CASE n = 1 -> head[1]
    [] n = 2 -> Uint(bo, head)
    [] n = 4 -> Uint(bo, head)
    [] n = 8 -> IF (IF bo = "BigEndian" THEN head[1] ELSE head[8]) >= 128
                THEN NegSize
                ELSE Uint(bo, head)

Zeros(n) == [i \in 1..n |-> 0]

\* --------------------------------------------------------------- state
VARIABLES
  proto,      \* the PNProtocol descriptor, NoProto before PacketN
  writers,    \* PNWriter instances: MaxPacketSize, head, and n, bo of encodeHead
  readers,    \* PNReader instances: MaxPacketSize, head, and n, bo of decodeHead
  wire,       \* per connection, every byte written to it so far
  rpos,       \* per connection, the number of bytes read from it so far
  closed,     \* per connection, whether it has been closed
  budget,     \* failures the transport may still report
  wt,         \* per writer thread, the WritePacket call it runs
  rt,         \* per reader thread, the ReadPacket call it runs
  inbuf,      \* per reader thread, the InBuffer it passes to ReadPacket
  wlog,       \* per connection, the WritePacket calls that returned
  panicked    \* "" or the message of the panic that ended the process

vars == <<proto, writers, readers, wire, rpos, closed, budget, wt, rt, inbuf,
          wlog, panicked>>

IdleW == [pc |-> "idle", w |-> 1, c |-> 1, buf |-> <<>>, size |-> 0,
          err |-> "nil", connerr |-> "nil", nwrites |-> 0, after |-> 0,
          start |-> 0, ncalls |-> 0, hpos |-> 0, ppos |-> 0, rivals |-> {}]
IdleR == [pc |-> "idle", r |-> 1, c |-> 1, n |-> 0, size |-> NoSize,
          err |-> "nil", connerr |-> "nil", start |-> 0,
          buf0 |-> [len |-> 0, data |-> <<>>], prep |-> 0, gets |-> 0,
          after |-> 0, lasterr |-> "nil", nerrs |-> 0,
          dropped |-> 0]

Init ==
  /\ proto = NoProto
  /\ writers = [w \in WriterIds |-> NoInst]
  /\ readers = [r \in ReaderIds |-> NoInst]
  /\ wire = [c \in ConnIds |-> <<>>]
  /\ rpos = [c \in ConnIds |-> 0]
  /\ closed = [c \in ConnIds |-> FALSE]
  /\ budget = 0
  /\ wt = [t \in WThreads |-> IdleW]
  /\ rt = [t \in RThreads |-> IdleR]
  /\ inbuf = [t \in RThreads |-> [len |-> 0, data |-> <<>>]]
  /\ wlog = [c \in ConnIds |-> <<>>]
  /\ panicked = ""

\* ---------------------------------------------------- protocol descriptor
\* PacketN(n, bo, bf): stores n and bo as given; MaxPacketSize starts at 0
PacketN(n, bo) ==
  /\ panicked = ""
  /\ proto = NoProto
  /\ proto' = [made |-> TRUE, MaxPacketSize |-> 0, n |-> n, bo |-> bo]
  /\ UNCHANGED <<writers, readers, wire, rpos, closed, budget, wt, rt, inbuf,
                 wlog, panicked>>

\* the slots of the given set for which no instance has been created yet
FreeSlots(WS, RS) ==
  {w \in WS : ~writers[w].made} \cup {r \in RS : ~readers[r].made}

\* an assignment to the exported field PNProtocol.MaxPacketSize, the only way
\* the descriptor gets a limit; assignments after the last NewWriter/NewReader
\* change nothing else and are left out
SetMaxPacketSize(m, WS, RS) ==
  /\ panicked = ""
  /\ proto.made
  /\ FreeSlots(WS, RS) # {}
  /\ proto.MaxPacketSize # m
  /\ proto' = [proto EXCEPT !.MaxPacketSize = m]
  /\ UNCHANGED <<writers, readers, wire, rpos, closed, budget, wt, rt, inbuf,
                 wlog, panicked>>

\* NewPNWriter(n, byteOrder): the instance, or the panic of the default case
NewPNWriter(n, bo) ==
  IF n \in Widths
  THEN [made |-> TRUE, MaxPacketSize |-> 0, head |-> Zeros(n), n |-> n, bo |-> bo]
  ELSE NoInst

\* NewPNReader(n, byteOrder)
NewPNReader(n, bo) ==
  IF n \in Widths
  THEN [made |-> TRUE, MaxPacketSize |-> 0, head |-> Zeros(n), n |-> n, bo |-> bo]
  ELSE NoInst

\* what PNProtocol.NewWriter gives the new writer as MaxPacketSize
WriterLimitNone(p) == 0
WriterLimit(p) == p.MaxPacketSize

\* what PNProtocol.NewReader gives the new reader as MaxPacketSize
ReaderLimit(p) == p.MaxPacketSize

\* PNProtocol.NewWriter
NewWriter(w) ==
  /\ panicked = ""
  /\ proto.made
  /\ ~writers[w].made
  /\ LET inst == NewPNWriter(proto.n, proto.bo)
     IN IF inst.made
        THEN /\ writers' = [writers EXCEPT
                              ![w] = [inst EXCEPT !.MaxPacketSize = WriterLimit(proto)]]
             /\ UNCHANGED panicked
        ELSE /\ panicked' = "unsupported packet head size"
             /\ UNCHANGED writers
  /\ UNCHANGED <<proto, readers, wire, rpos, closed, budget, wt, rt, inbuf, wlog>>

\* PNProtocol.NewReader
NewReader(r) ==
  /\ panicked = ""
  /\ proto.made
  /\ ~readers[r].made
  /\ LET inst == NewPNReader(proto.n, proto.bo)
     IN IF inst.made
        THEN /\ readers' = [readers EXCEPT
                              ![r] = [inst EXCEPT !.MaxPacketSize = ReaderLimit(proto)]]
             /\ UNCHANGED panicked
        ELSE /\ panicked' = "unsupported packet head size"
             /\ UNCHANGED readers
  /\ UNCHANGED <<proto, writers, wire, rpos, closed, budget, wt, rt, inbuf, wlog>>

\* ------------------------------------------------------------ connection
Avail(c) == Len(wire[c]) - rpos[c]

\* the results (n, err) conn.Write(data) can give: everything written, or a
\* failure after a proper prefix (none of the bytes, or all but the last);
\* a closed connection takes nothing
WriteOutcomes(c, data) ==
  IF closed[c]
  THEN {[n |-> 0, err |-> ErrClosed]}
  ELSE {[n |-> Len(data), err |-> "nil"]}
       \cup (IF budget > 0
             THEN {[n |-> k, err |-> ErrConn] : k \in {0, Len(data) - 1}}
             ELSE {})

\* the results (n, err) one conn.Read into a buffer with need free bytes can
\* give: some of the bytes in flight; the rest of them together with EOF once
\* the connection is closed; a failure, with no byte or with all the bytes it
\* could give.  A Read that gives (0, nil) changes nothing and is a
\* stuttering step.
ReadOutcomes(c, need) ==
  {[n |-> k, err |-> "nil"] : k \in 1..Min(Avail(c), need)}
  \cup (IF closed[c] /\ Avail(c) <= need
        THEN {[n |-> Avail(c), err |-> EOF]}
        ELSE {})
  \cup (IF budget > 0
        THEN {[n |-> k, err |-> ErrConn] : k \in {0, Min(Avail(c), need)}}
        ELSE {})

Fault(o) == IF o.err = ErrConn THEN 1 ELSE 0

\* the connection is closed
Close(c) ==
  /\ panicked = ""
  /\ ~closed[c]
  /\ closed' = [closed EXCEPT ![c] = TRUE]
  /\ UNCHANGED <<proto, writers, readers, wire, rpos, budget, wt, rt, inbuf,
                 wlog, panicked>>

\* a chunk of n bytes a peer that is not a PNWriter may send: a header with
\* a as its first byte, b as its last byte and zeros between them
PeerHead(n, a, b) == [i \in 1..n |-> IF i = n THEN b ELSE IF i = 1 THEN a ELSE 0]

\* the byte values the peer puts in the first and in the last place
PeerFirst == {0, 255}
PeerLast == {0, 1, 255}

\* the peer of connection c sends a chunk as long as a header
PeerSend(c, a, b) ==
  /\ panicked = ""
  /\ proto.made
  /\ proto.n \in Widths
  /\ Len(wire[c]) < MaxPeerSends * proto.n
  /\ wire' = [wire EXCEPT ![c] = @ \o PeerHead(proto.n, a, b)]
  /\ UNCHANGED <<proto, writers, readers, rpos, closed, budget, wt, rt, inbuf,
                 wlog, panicked>>

\* ---------------------------------------------------------------- writer
\* the size check of WritePacket
WriterRejectsAtLimit(M, size) == M > 0 /\ size >= M
WriterRejects(M, size) == M > 0 /\ size > M

\* where WritePacket goes after the header has been written
AfterHeadAlwaysPayload(size) == "wpayload"
AfterHead(size) == IF size = 0 THEN "done" ELSE "wpayload"

\* where WritePacket goes after conn.Write(w.head) returned err
AfterHeadErrGoesOn(size, err) == AfterHead(size)
AfterHeadErr(size, err) == IF err # "nil" THEN "done" ELSE AfterHead(size)

\* the PNWriter whose head the encodeHead closure of writer w fills: the
\* closure captures the w that NewPNWriter has just allocated
ScratchShared(w) == 1
ScratchOf(w) == w

\* the other contexts that are between encodeHead and the header write of a
\* WritePacket call on writer w while context t is: nothing orders their
\* accesses to w.head with those of t
Racers(t, w) == {u \in WThreads \ {t} : wt[u].pc = "whead" /\ wt[u].w = w}

\* the values of n bytes of which every byte is that byte of one of cands
Mixes(n, cands) == {[i \in 1..n |-> f[i][i]] : f \in [1..n -> cands]}

\* what w.head can hold after encodeHead(size) of writer wr: the encoding of
\* size, or, when calls with the sizes rsizes race with it, any mix of bytes
\* of the racing encodings
HeadStores(wr, size, rsizes) ==
  IF rsizes = {}
  THEN {EncodeHead(wr.n, wr.bo, size)}
  ELSE Mixes(wr.n, {EncodeHead(wr.n, wr.bo, s) : s \in {size} \cup rsizes})

\* what conn.Write(w.head) can read from w.head: the bytes it holds, or, when
\* calls with the sizes rsizes race with it, any mix of them with bytes the
\* racing encodeHead calls store
HeadViewsOwn(wr, size, rsizes) == {EncodeHead(wr.n, wr.bo, size)}
HeadViews(wr, size, rsizes) ==
  IF rsizes = {}
  THEN {wr.head}
  ELSE Mixes(wr.n, {wr.head} \cup {EncodeHead(wr.n, wr.bo, s) : s \in rsizes})

\* a WritePacket call that has returned is put on the connection's log
Logged(c, buf, err) == [wlog EXCEPT ![c] = Append(@, [buf |-> buf, err |-> err])]

\* WritePacket up to encodeHead: size := buffer.Len(), the size check, and
\* the header encoded into the writer's scratch buffer; max bounds the calls
WriteBegin(t, w, c, buf, max) ==
  /\ panicked = ""
  /\ wt[t].pc \in {"idle", "done"}
  /\ wt[t].ncalls < max
  /\ writers[w].made
  /\ LET size == Len(buf)
         racers == Racers(t, w)
         rsizes == {wt[u].size : u \in racers}
         call == [pc |-> "whead", w |-> w, c |-> c, buf |-> buf, size |-> size,
                  err |-> "nil", connerr |-> "nil", nwrites |-> 0, after |-> 0,
                  start |-> Len(wire[c]), ncalls |-> wt[t].ncalls + 1,
                  hpos |-> 0, ppos |-> 0, rivals |-> {}]
     IN IF WriterRejects(writers[w].MaxPacketSize, size)
        THEN /\ wt' = [wt EXCEPT ![t] = [call EXCEPT !.pc = "done",
                                                     !.err = PacketTooLargeError]]
             /\ wlog' = Logged(c, buf, PacketTooLargeError)
             /\ UNCHANGED writers
        ELSE /\ wt' = [u \in WThreads |->
                         IF u = t THEN [call EXCEPT !.rivals = rsizes]
                         ELSE IF u \in racers
                         THEN [wt[u] EXCEPT !.rivals = @ \cup {size}]
                         ELSE wt[u]]
             /\ \E h \in HeadStores(writers[w], size, rsizes) :
                  writers' = [writers EXCEPT ![ScratchOf(w)].head = h]
             /\ UNCHANGED wlog
  /\ UNCHANGED <<proto, readers, wire, rpos, closed, budget, rt, inbuf, panicked>>

\* whether the header write of context t on connection c has to wait for
\* another call that is between its two writes on c: WritePacket takes no
\* lock and nothing joins its two conn.Write calls
HeldBetweenWrites(t, c) ==
  \E u \in WThreads \ {t} : wt[u].pc = "wpayload" /\ wt[u].c = c
Held(t, c) == FALSE

\* conn.Write(w.head) and the size == 0 return
WriteHead(t) ==
  /\ panicked = ""
  /\ wt[t].pc = "whead"
  /\ ~Held(t, wt[t].c)
  /\ LET me == wt[t]
         rsizes == {wt[u].size : u \in Racers(t, me.w)}
     IN \E head \in HeadViews(writers[me.w], me.size, rsizes) :
        \E o \in WriteOutcomes(me.c, head) :
          LET pc2 == AfterHeadErr(me.size, o.err)
          IN /\ wire' = [wire EXCEPT ![me.c] = @ \o SubSeq(head, 1, o.n)]
             /\ budget' = budget - Fault(o)
             /\ wt' = [wt EXCEPT ![t] = [me EXCEPT
                         !.pc = pc2,
                         !.err = o.err,
                         !.connerr = o.err,
                         !.hpos = Len(wire[me.c]),
                         !.nwrites = @ + 1]]
             /\ wlog' = IF pc2 = "done" THEN Logged(me.c, me.buf, o.err) ELSE wlog
  /\ UNCHANGED <<proto, writers, readers, rpos, closed, rt, inbuf, panicked>>

\* conn.Write(buffer.Get())
WritePayload(t) ==
  /\ panicked = ""
  /\ wt[t].pc = "wpayload"
  /\ LET me == wt[t]
     IN \E o \in WriteOutcomes(me.c, me.buf) :
          /\ wire' = [wire EXCEPT ![me.c] = @ \o SubSeq(me.buf, 1, o.n)]
          /\ budget' = budget - Fault(o)
          /\ wt' = [wt EXCEPT ![t] = [me EXCEPT
                      !.pc = "done",
                      !.err = o.err,
                      !.connerr = IF me.connerr # "nil" THEN me.connerr ELSE o.err,
                      !.after = IF me.connerr # "nil" THEN @ + 1 ELSE @,
                      !.ppos = Len(wire[me.c]),
                      !.nwrites = @ + 1]]
          /\ wlog' = Logged(me.c, me.buf, o.err)
  /\ UNCHANGED <<proto, writers, readers, rpos, closed, rt, inbuf, panicked>>

\* ---------------------------------------------------------------- reader
\* io.ReadFull(conn, buf) with len(buf) = min: after a conn.Read that brought
\* the count to n and reported e, whether the loop reads again
ReadFullStopsEarly(n, min, e) == FALSE
ReadFullContinues(n, min, e) == n < min /\ e = "nil"

\* io.ReadFull: the error it returns when the loop has ended
ReadFullErr(n, min, e) ==
  IF n >= min THEN "nil"
  ELSE IF n > 0 /\ e = EOF THEN ErrUnexpectedEOF
  ELSE e

\* the size check of ReadPacket
ReaderRejectsBelow(M, size) == M > 0 /\ size < M
ReaderRejectsAtLimit(M, size) == M > 0 /\ size >= M
ReaderRejects(M, size) == M > 0 /\ size > M

\* whether ReadPacket returns nil right after decoding the header
EmptyFrameNever(size) == FALSE
EmptyFrame(size) == size = 0

\* InBuffer.Prepare(size): the buffer is sized to receive size bytes, none of
\* them written yet; data holds the bytes written since, the bytes of the
\* buffer beyond Len(data) are not determined
Prepare(size) == [len |-> size, data |-> <<>>]

\* the bytes one Read takes from the connection
Taken(c, k) == SubSeq(wire[c], rpos[c] + 1, rpos[c] + k)

\* the call's record after one conn.Read that gave o and brought the count of
\* the running io.ReadFull to n2 of min
AfterRead(me, o, n2, min) ==
  [me EXCEPT !.n = n2,
             !.connerr = IF @ # "nil" THEN @ ELSE o.err,
             !.after = IF me.connerr # "nil" THEN @ + 1 ELSE @,
             !.lasterr = o.err,
             !.nerrs = IF o.err # "nil" THEN @ + 1 ELSE @,
             !.dropped = IF o.err # "nil" /\ n2 >= min THEN @ + 1 ELSE @]

\* r.head after one conn.Read of io.ReadFull(conn, r.head) has put the bytes
\* got behind the n bytes the earlier Reads of that ReadFull had put
HeadFillStale(old, n, got) ==
  [i \in 1..Len(old) |->
     IF i > n /\ i <= n + Len(got) /\ old[i] = 0 THEN got[i - n] ELSE old[i]]
HeadFill(old, n, got) ==
  [i \in 1..Len(old) |->
     IF i > n /\ i <= n + Len(got) THEN got[i - n] ELSE old[i]]

\* ReadPacket is called
ReadBegin(t, r, c) ==
  /\ panicked = ""
  /\ rt[t].pc \in {"idle", "done"}
  /\ readers[r].made
  /\ rt' = [rt EXCEPT ![t] =
              [pc |-> "rhead", r |-> r, c |-> c, n |-> 0, size |-> NoSize,
               err |-> "nil", connerr |-> "nil", start |-> rpos[c],
               buf0 |-> inbuf[t], prep |-> 0, gets |-> 0,
               after |-> 0, lasterr |-> "nil", nerrs |-> 0, dropped |-> 0]]
  /\ UNCHANGED <<proto, writers, readers, wire, rpos, closed, budget, wt, inbuf,
                 wlog, panicked>>

\* one conn.Read of io.ReadFull(conn, r.head); when that call returns, the
\* rest of ReadPacket up to buffer.Prepare(size)
ReadHead(t) ==
  /\ panicked = ""
  /\ rt[t].pc = "rhead"
  /\ LET me == rt[t]
         rd == readers[me.r]
     IN \E o \in ReadOutcomes(me.c, rd.n - me.n) :
          LET n2 == me.n + o.n
              head2 == HeadFill(rd.head, me.n, Taken(me.c, o.n))
              err == ReadFullErr(n2, rd.n, o.err)
              size == DecodeHead(rd.n, rd.bo, head2)
              io == AfterRead(me, o, n2, rd.n)
          IN /\ rpos' = [rpos EXCEPT ![me.c] = @ + o.n]
             /\ budget' = budget - Fault(o)
             /\ readers' = [readers EXCEPT ![me.r].head = head2]
             /\ IF ReadFullContinues(n2, rd.n, o.err)
                THEN /\ rt' = [rt EXCEPT ![t] = io]
                     /\ UNCHANGED <<inbuf, panicked>>
                ELSE IF err # "nil"
                THEN /\ rt' = [rt EXCEPT ![t] = [io EXCEPT !.pc = "done", !.err = err]]
                     /\ UNCHANGED <<inbuf, panicked>>
                ELSE IF EmptyFrame(size)
                THEN /\ rt' = [rt EXCEPT ![t] = [io EXCEPT !.pc = "done", !.size = size]]
                     /\ UNCHANGED <<inbuf, panicked>>
                ELSE IF ReaderRejects(rd.MaxPacketSize, size)
                THEN /\ rt' = [rt EXCEPT ![t] = [io EXCEPT !.pc = "done", !.size = size,
                                                          !.err = PacketTooLargeError]]
                     /\ UNCHANGED <<inbuf, panicked>>
                ELSE IF size < 0
                THEN /\ rt' = [rt EXCEPT ![t] = [io EXCEPT !.pc = "panic", !.size = size,
                                                          !.prep = @ + 1]]
                     /\ panicked' = "Prepare: negative size"
                     /\ UNCHANGED inbuf
                ELSE /\ rt' = [rt EXCEPT ![t] = [io EXCEPT !.pc = "rpayload", !.size = size,
                                                          !.n = 0, !.prep = @ + 1,
                                                          !.gets = @ + 1]]
                     /\ inbuf' = [inbuf EXCEPT ![t] = Prepare(size)]
                     /\ UNCHANGED panicked
  /\ UNCHANGED <<proto, writers, wire, closed, wt, wlog>>

\* one conn.Read of io.ReadFull(conn, buffer.Get())
ReadPayload(t) ==
  /\ panicked = ""
  /\ rt[t].pc = "rpayload"
  /\ LET me == rt[t]
     IN \E o \in ReadOutcomes(me.c, me.size - me.n) :
          LET n2 == me.n + o.n
              err == ReadFullErr(n2, me.size, o.err)
              io == AfterRead(me, o, n2, me.size)
          IN /\ rpos' = [rpos EXCEPT ![me.c] = @ + o.n]
             /\ budget' = budget - Fault(o)
             /\ inbuf' = [inbuf EXCEPT ![t].data = @ \o Taken(me.c, o.n)]
             /\ IF ReadFullContinues(n2, me.size, o.err)
                THEN rt' = [rt EXCEPT ![t] = io]
                ELSE rt' = [rt EXCEPT ![t] = [io EXCEPT !.pc = "done", !.err = err]]
  /\ UNCHANGED <<proto, writers, readers, wire, closed, wt, wlog, panicked>>

\* ------------------------------------------------------- specifications
\* one descriptor, one writer and one reader on one connection, each used by
\* one execution context, over a transport that reports no failure
Next ==
  \/ \E n \in Widths \cup InvalidWidths, bo \in ByteOrders : PacketN(n, bo)
  \/ \E m \in {0, MaxM} : SetMaxPacketSize(m, {1}, {1})
  \/ NewWriter(1)
  \/ NewReader(1)
  \/ \E buf \in Payloads : WriteBegin(1, 1, 1, buf, MaxWrites)
  \/ WriteHead(1)
  \/ WritePayload(1)
  \/ ReadBegin(1, 1, 1)
  \/ ReadHead(1)
  \/ ReadPayload(1)

Spec == Init /\ [][Next]_vars

\* the same with a transport that hands over, sooner or later, the bytes in
\* flight to a Read that waits for them
SpecLive ==
  /\ Init
  /\ [][Next]_vars
  /\ WF_vars(ReadHead(1))
  /\ WF_vars(ReadPayload(1))

\* the same over a transport that may report failures and may be closed
InitFaulty ==
  /\ proto = NoProto
  /\ writers = [w \in WriterIds |-> NoInst]
  /\ readers = [r \in ReaderIds |-> NoInst]
  /\ wire = [c \in ConnIds |-> <<>>]
  /\ rpos = [c \in ConnIds |-> 0]
  /\ closed = [c \in ConnIds |-> FALSE]
  /\ budget = MaxFaults
  /\ wt = [t \in WThreads |-> IdleW]
  /\ rt = [t \in RThreads |-> IdleR]
  /\ inbuf = [t \in RThreads |-> [len |-> 0, data |-> <<>>]]
  /\ wlog = [c \in ConnIds |-> <<>>]
  /\ panicked = ""

NextFaulty ==
  \/ \E n \in Widths \cup InvalidWidths, bo \in ByteOrders : PacketN(n, bo)
  \/ \E m \in {0, MaxM} : SetMaxPacketSize(m, {1}, {1})
  \/ NewWriter(1)
  \/ NewReader(1)
  \/ \E buf \in Payloads : WriteBegin(1, 1, 1, buf, MaxFaultyWrites)
  \/ WriteHead(1)
  \/ WritePayload(1)
  \/ ReadBegin(1, 1, 1)
  \/ ReadHead(1)
  \/ ReadPayload(1)
  \/ Close(1)

SpecFaulty == InitFaulty /\ [][NextFaulty]_vars

\* the payloads written on connection c when two connections run side by side
ParPayloads(c) == IF c = 1 THEN {<<>>, PatA(MaxLen)} ELSE {Hello}

\* one descriptor and two connections over a transport that reports no
\* failure; connection i has writer i and reader i, used by contexts i
NextPar ==
  \/ \E n \in Widths, bo \in ByteOrders : PacketN(n, bo)
  \/ \E i \in ConnIds : NewWriter(i)
  \/ \E i \in ConnIds : NewReader(i)
  \/ \E i \in ConnIds : \E buf \in ParPayloads(i) : WriteBegin(i, i, i, buf, MaxParWrites)
  \/ \E i \in ConnIds : WriteHead(i)
  \/ \E i \in ConnIds : WritePayload(i)
  \/ \E i \in ConnIds : ReadBegin(i, i, i)
  \/ \E i \in ConnIds : ReadHead(i)
  \/ \E i \in ConnIds : ReadPayload(i)

SpecPar == Init /\ [][NextPar]_vars

\* one reader on a connection whose other end sends bytes of its own making
NextPeer ==
  \/ \E n \in Widths, bo \in ByteOrders : PacketN(n, bo)
  \/ \E m \in {0, MaxM} : SetMaxPacketSize(m, {}, {1})
  \/ NewReader(1)
  \/ \E a \in PeerFirst, b \in PeerLast : PeerSend(1, a, b)
  \/ ReadBegin(1, 1, 1)
  \/ ReadHead(1)
  \/ ReadPayload(1)

SpecPeer == Init /\ [][NextPeer]_vars

\* the payloads context t writes when two contexts use one writer
ReentryPayloads(t) == IF t = 1 THEN {<<>>, PatA(MaxLen)} ELSE {Hello}

\* one writer on one connection, used by two contexts with nothing that
\* keeps their WritePacket calls apart
NextReentry ==
  \/ \E n \in Widths, bo \in ByteOrders : PacketN(n, bo)
  \/ NewWriter(1)
  \/ \E t \in WThreads : \E buf \in ReentryPayloads(t) :
        WriteBegin(t, 1, 1, buf, MaxReentryWrites)
  \/ \E t \in WThreads : WriteHead(t)
  \/ \E t \in WThreads : WritePayload(t)

SpecReentry == Init /\ [][NextReentry]_vars

\* the payloads writer i puts on the connection it shares with the other
SharedPayloads(i) == IF i = 1 THEN {Hello} ELSE {PatA(MaxLen)}

\* two writers, each used by its own context, on one connection that one
\* reader reads
NextShared ==
  \/ \E n \in Widths, bo \in ByteOrders : PacketN(n, bo)
  \/ \E i \in WriterIds : NewWriter(i)
  \/ NewReader(1)
  \/ \E i \in WriterIds : \E buf \in SharedPayloads(i) :
        WriteBegin(i, i, 1, buf, MaxSharedWrites)
  \/ \E i \in WriterIds : WriteHead(i)
  \/ \E i \in WriterIds : WritePayload(i)
  \/ ReadBegin(1, 1, 1)
  \/ ReadHead(1)
  \/ ReadPayload(1)

SpecShared == Init /\ [][NextShared]_vars

\* one writer and one reader with one-byte headers, the payloads being
\* longer than the header can express; the limit is absent or above them
NextWrap ==
  \/ \E bo \in ByteOrders : PacketN(1, bo)
  \/ \E m \in {0, HeadRange(1) + MaxWrapExtra} : SetMaxPacketSize(m, {1}, {1})
  \/ NewWriter(1)
  \/ NewReader(1)
  \/ \E buf \in WrapPayloads : WriteBegin(1, 1, 1, buf, MaxWrapWrites)
  \/ WriteHead(1)
  \/ WritePayload(1)
  \/ ReadBegin(1, 1, 1)
  \/ ReadHead(1)
  \/ ReadPayload(1)

SpecWrap == Init /\ [][NextWrap]_vars


\* ================================================================ claims
\* the writer thread, the reader thread and the connection of Spec
W1 == wt[1]
R1 == rt[1]
Wid == readers[1].n

\* the bytes the running or last WritePacket call has put on the connection
Sent == SubSeq(wire[1], W1.start + 1, Len(wire[1]))

\* the bytes the running or last ReadPacket call has taken from the connection
Consumed == rpos[1] - R1.start

\* ---- C1
\* the first WritePacket returned nil, no limit is set on either side, and a
\* ReadPacket that started at the first byte of the stream with an empty
\* buffer has had no failure reported by the connection
RoundTripCase ==
  /\ Len(wlog[1]) >= 1
  /\ wlog[1][1].err = "nil"
  /\ writers[1].MaxPacketSize = 0
  /\ readers[1].made
  /\ readers[1].MaxPacketSize = 0
  /\ R1.pc # "idle"
  /\ R1.start = 0
  /\ R1.buf0 = [len |-> 0, data |-> <<>>]
  /\ R1.connerr = "nil"

\* C1: round trip. With no size limit, a payload written by one WritePacket
\* and read by one ReadPacket of the same width and byte order over a stream
\* that does not fail is decoded with its own length, the call succeeds, and
\* the incoming buffer then holds exactly the bytes of the payload.
C1_RoundTrip ==
  RoundTripCase =>
    LET p == wlog[1][1].buf
    IN /\ R1.size # NoSize => R1.size = Len(p)
       /\ R1.pc = "done" =>
            /\ R1.err = "nil"
            /\ inbuf[1] = [len |-> Len(p), data |-> p]

C1_Witness ==
  /\ RoundTripCase
  /\ R1.pc = "done"
  /\ readers[1].n = 8
  /\ readers[1].bo = "LittleEndian"
  /\ wlog[1][1].buf = Hello
  /\ inbuf[1].data = Hello

\* ---- C2
\* C2: write-side size limit. A WritePacket whose payload is longer than the
\* writer's MaxPacketSize M > 0 returns PacketTooLargeError without a single
\* conn.Write, the connection's bytes being those from before the call; a
\* payload of exactly M bytes is not rejected.
C2_WriteLimit ==
  LET M == writers[1].MaxPacketSize
  IN (W1.pc # "idle" /\ M > 0) =>
       /\ Len(W1.buf) > M =>
            /\ W1.pc = "done"
            /\ W1.err = PacketTooLargeError
            /\ W1.nwrites = 0
            /\ Len(wire[1]) = W1.start
       /\ Len(W1.buf) = M => W1.err # PacketTooLargeError

C2_Witness ==
  /\ W1.pc = "done"
  /\ writers[1].MaxPacketSize = 1
  /\ W1.buf = Hello
  /\ W1.err = PacketTooLargeError
  /\ W1.ncalls = 2
  /\ W1.start > 0

\* ---- C3
\* the running or last ReadPacket decoded a length above the reader's limit
OverLimit ==
  /\ R1.pc # "idle"
  /\ readers[1].MaxPacketSize > 0
  /\ R1.size # NoSize
  /\ R1.size > readers[1].MaxPacketSize

\* a ReadPacket call starts right after one that returned PacketTooLargeError
ReadAfterTooLarge ==
  /\ R1.pc = "done"
  /\ R1.err = PacketTooLargeError
  /\ rt'[1].pc = "rhead"

\* C3: read-side size limit. A ReadPacket that decodes a length above the
\* reader's MaxPacketSize M > 0 returns PacketTooLargeError having taken
\* exactly the header bytes from the stream, with no Prepare and no Get on the
\* incoming buffer, which is as it was before the call; the next ReadPacket
\* starts at the first byte after that header.
C3_ReadLimit ==
  /\ [](OverLimit =>
          /\ R1.pc = "done"
          /\ R1.err = PacketTooLargeError
          /\ R1.size = DecodeHead(Wid, readers[1].bo,
                                  SubSeq(wire[1], R1.start + 1, R1.start + Wid))
          /\ Consumed = Wid
          /\ R1.prep = 0
          /\ R1.gets = 0
          /\ inbuf[1] = R1.buf0)
  /\ [][ReadAfterTooLarge => rt'[1].start = R1.start + Wid]_vars

\* the frame "hello" of the writer was turned down by the reader, which had
\* delivered a frame before, and its payload is still on the stream
C3_Witness ==
  /\ OverLimit
  /\ R1.start > 0
  /\ R1.size = 5
  /\ Wid = 4
  /\ inbuf[1].data = <<1>>
  /\ Len(wire[1]) = rpos[1] + 5
  /\ SubSeq(wire[1], rpos[1] + 1, rpos[1] + 5) = Hello

\* ---- C4
\* the payload bytes of the frame the running or last ReadPacket decoded
FramePayload == SubSeq(wire[1], R1.start + Wid + 1, R1.start + Wid + R1.size)

\* C4: after every successful ReadPacket the incoming buffer holds exactly the
\* L payload bytes of the frame the call consumed, whatever it held before.
C4_BufferHoldsFrame ==
  (R1.pc = "done" /\ R1.err = "nil") =>
     /\ inbuf[1].len = R1.size
     /\ inbuf[1].data = FramePayload

\* ---- C5
\* C5: zero-length frame. WritePacket of an empty payload makes one write, of
\* the Wid zero bytes of the header, and no payload write; ReadPacket that
\* decodes 0 returns nil having taken exactly the header bytes, with no
\* Prepare and no Get, the incoming buffer being as before the call.  The
\* limit, set or not, plays no part.
C5_ZeroLength ==
  /\ (W1.pc # "idle" /\ Len(W1.buf) = 0) =>
       /\ W1.pc # "wpayload"
       /\ W1.err # PacketTooLargeError
       /\ (W1.pc = "done" /\ W1.err = "nil") =>
            /\ W1.nwrites = 1
            /\ Sent = Zeros(writers[1].n)
  /\ (R1.pc # "idle" /\ R1.size = 0) =>
       /\ R1.pc = "done"
       /\ R1.err = "nil"
       /\ Consumed = Wid
       /\ R1.prep = 0
       /\ R1.gets = 0
       /\ inbuf[1] = R1.buf0

\* an empty frame was written and read under a limit, with a buffer that
\* held an earlier frame
C5_Witness ==
  /\ W1.pc = "done" /\ Len(W1.buf) = 0 /\ W1.err = "nil"
  /\ writers[1].MaxPacketSize > 0
  /\ R1.pc = "done" /\ R1.size = 0
  /\ readers[1].MaxPacketSize > 0
  /\ R1.start > 0
  /\ inbuf[1].data = <<1>>

\* ---- C6
\* C6: an unsupported header width is rejected when the descriptor is
\* constructed: no descriptor has a width outside {1, 2, 4, 8}, and no later
\* call fails because of the width.
C6_WidthRejectedAtConstruction ==
  /\ proto.made => proto.n \in Widths
  /\ panicked # "unsupported packet head size"

\* ---- C7
\* the unsigned integer that the bytes b spell, most significant byte first
RECURSIVE Spelled(_)
Spelled(b) ==
  IF b = <<>> THEN 0
  ELSE 256 * Spelled(SubSeq(b, 1, Len(b) - 1)) + b[Len(b)]

\* the bytes b put in most-significant-first order for byte order bo
Ordered(bo, b) == IF bo = "BigEndian" THEN b ELSE Reverse(b)

\* C7: wire format. A WritePacket of a non-empty payload that passes the size
\* check puts on the connection the header, Wid bytes that spell the payload
\* length in the configured byte order, then the payload bytes and nothing
\* else; "hello" at width 2 is 00 05 68 65 6C 6C 6F big-endian and starts
\* with 05 00 little-endian.
C7_WireFormat ==
  LET w == writers[1]
      L == Len(W1.buf)
  IN /\ W1.pc = "wpayload" =>
          /\ Len(Sent) = w.n
          /\ Spelled(Ordered(w.bo, Sent)) = L
     /\ (W1.pc = "done" /\ W1.err = "nil" /\ L > 0) =>
          /\ W1.nwrites = 2
          /\ Len(Sent) = w.n + L
          /\ Spelled(Ordered(w.bo, SubSeq(Sent, 1, w.n))) = L
          /\ SubSeq(Sent, w.n + 1, w.n + L) = W1.buf
          /\ (w.n = 2 /\ W1.buf = Hello /\ w.bo = "BigEndian") =>
               Sent = <<0, 5, 104, 101, 108, 108, 111>>
          /\ (w.n = 2 /\ W1.buf = Hello /\ w.bo = "LittleEndian") =>
               Sent = <<5, 0, 104, 101, 108, 108, 111>>

C7_Witness ==
  /\ W1.pc = "done" /\ W1.err = "nil"
  /\ writers[1].n = 2
  /\ writers[1].bo = "BigEndian"
  /\ W1.buf = Hello
  /\ Sent = <<0, 5, 104, 101, 108, 108, 111>>

\* ---- C8
\* C8: transport errors are propagated unmodified and never retried. When a
\* read or write on the connection fails during a call, the call returns the
\* very error the connection reported and does nothing more on the
\* connection.
C8_ErrorsUnmodified ==
  /\ (W1.pc = "done" /\ W1.connerr # "nil") =>
        W1.err = W1.connerr /\ W1.after = 0
  /\ (W1.pc \in {"whead", "wpayload"}) => W1.connerr = "nil"
  /\ (R1.pc = "done" /\ R1.connerr # "nil") =>
        R1.err = R1.connerr /\ R1.after = 0
  /\ (R1.pc \in {"rhead", "rpayload"}) => R1.connerr = "nil"

\* C8 as amended. A failed conn.Write ends WritePacket at once with that
\* error unchanged.  Each of the two io.ReadFull calls of ReadPacket stops at
\* the first error the connection reports: when the bytes it needed are
\* complete with that read, the error is dropped and the call goes on as
\* after a plain read; otherwise ReadPacket returns at once, with that error
\* unchanged, except that EOF becomes io.ErrUnexpectedEOF when at least one
\* byte of that header or payload had been received.
C8_ErrorsAmended ==
  /\ (W1.pc = "done" /\ W1.connerr # "nil") =>
        W1.err = W1.connerr /\ W1.after = 0
  /\ (W1.pc \in {"whead", "wpayload"}) => W1.connerr = "nil"
  /\ (R1.pc \in {"rhead", "rpayload"}) => R1.nerrs = R1.dropped
  /\ (R1.pc = "done") =>
        /\ R1.nerrs \in {R1.dropped, R1.dropped + 1}
        /\ R1.nerrs = R1.dropped => R1.err \in {"nil", PacketTooLargeError}
        /\ R1.nerrs = R1.dropped + 1 =>
             R1.err = IF R1.lasterr = EOF /\ R1.n > 0
                      THEN ErrUnexpectedEOF
                      ELSE R1.lasterr

\* the stream ended inside a payload, and a header write failed
C8_Witness ==
  /\ R1.pc = "done"
  /\ R1.size = 5
  /\ R1.n = 5 - 1
  /\ R1.lasterr = EOF
  /\ R1.err = ErrUnexpectedEOF
  /\ W1.pc = "done"
  /\ W1.nwrites = 2

\* ---- C9
\* the header at which the running ReadPacket started, as far as written
HeaderAtStart == SubSeq(wire[1], R1.start + 1, R1.start + Wid)

\* a ReadPacket is running and the frame at the byte where it started is on
\* the connection in full, with a length the reader accepts
FrameReady ==
  /\ R1.pc \in {"rhead", "rpayload"}
  /\ Len(wire[1]) >= R1.start + Wid
  /\ LET L == DecodeHead(Wid, readers[1].bo, HeaderAtStart)
     IN /\ L >= 0
        /\ ~ReaderRejects(readers[1].MaxPacketSize, L)
        /\ Len(wire[1]) - (R1.start + Wid) >= L

\* ReadPacket has returned nil having taken one header and the payload that
\* header announces
Delivered ==
  /\ R1.pc = "done"
  /\ R1.err = "nil"
  /\ Consumed = Wid + R1.size

\* C9: short-read resilience. However the transport cuts the bytes of a frame
\* into fragments, ReadPacket accumulates exactly the header and then exactly
\* the payload: at every moment it has taken no more than that, it returns nil
\* once the frame is complete, and a frame that is on the connection in full
\* is delivered in the end, not one byte of what follows it being taken.
C9_ShortReads ==
  /\ [](/\ R1.pc = "rhead" => (Consumed = R1.n /\ R1.n < Wid)
        /\ R1.pc = "rpayload" =>
             /\ Consumed = Wid + R1.n
             /\ R1.n < R1.size
             /\ R1.size = DecodeHead(Wid, readers[1].bo, HeaderAtStart)
             /\ inbuf[1] = [len |-> R1.size,
                            data |-> SubSeq(wire[1], R1.start + Wid + 1,
                                            R1.start + Wid + R1.n)]
        /\ R1.pc = "done" =>
             /\ R1.err \in {"nil", PacketTooLargeError}
             /\ R1.size = DecodeHead(Wid, readers[1].bo, HeaderAtStart)
             /\ R1.err = PacketTooLargeError <=>
                  ReaderRejects(readers[1].MaxPacketSize, R1.size)
             /\ R1.err = "nil" =>
                  /\ Consumed = Wid + R1.size
                  /\ R1.size > 0 => inbuf[1] = [len |-> R1.size,
                                                data |-> FramePayload])
  /\ FrameReady ~> Delivered

\* a frame of five payload bytes behind an eight-byte header was delivered
\* while the next frame was already on the connection
C9_Witness ==
  /\ Delivered
  /\ Wid = 8
  /\ R1.size = 5
  /\ inbuf[1].data = Hello
  /\ Len(wire[1]) > rpos[1]

\* ---- C10
\* C10: the descriptor's configuration does not change after construction,
\* so the writer and the reader obtained from it, whenever that was, have the
\* same width, byte order and MaxPacketSize.
C10_SameConfig ==
  (writers[1].made /\ readers[1].made) =>
     /\ writers[1].n = readers[1].n
     /\ writers[1].bo = readers[1].bo
     /\ writers[1].MaxPacketSize = readers[1].MaxPacketSize

\* C10 as amended. The descriptor's width and byte order do not change after
\* construction and every writer and reader obtained from it has them.
\* MaxPacketSize is an exported field that is 0 after PacketN and may be
\* assigned at any time; a writer or reader gets the value the descriptor
\* holds when NewWriter or NewReader creates it.
C10_ConfigAmended ==
  /\ [](/\ writers[1].made =>
             (writers[1].n = proto.n /\ writers[1].bo = proto.bo)
        /\ readers[1].made =>
             (readers[1].n = proto.n /\ readers[1].bo = proto.bo))
  /\ [][/\ proto.made =>
             (proto'.made /\ proto'.n = proto.n /\ proto'.bo = proto.bo)
        /\ (~writers[1].made /\ writers'[1].made) =>
             writers'[1].MaxPacketSize = proto.MaxPacketSize
        /\ (~readers[1].made /\ readers'[1].made) =>
             readers'[1].MaxPacketSize = proto.MaxPacketSize]_vars

\* a writer and a reader of one descriptor with different limits
C10_Witness ==
  /\ writers[1].made
  /\ readers[1].made
  /\ writers[1].MaxPacketSize = 1
  /\ readers[1].MaxPacketSize = 0
  /\ proto.MaxPacketSize = 0

\* ---- C11
\* the bytes that the returned calls of log put on a connection, in order
RECURSIVE FramesOf(_, _, _)
FramesOf(n, bo, log) ==
  IF log = <<>> THEN <<>>
  ELSE (IF Head(log).err = "nil"
        THEN EncodeHead(n, bo, Len(Head(log).buf)) \o Head(log).buf
        ELSE <<>>)
       \o FramesOf(n, bo, Tail(log))

\* the bytes that the WritePacket call running on connection c has put on it
InFlight(c) ==
  IF wt[c].pc = "wpayload"
  THEN EncodeHead(proto.n, proto.bo, Len(wt[c].buf))
  ELSE <<>>

\* the bytes on connection c when its own calls are run with no other
\* connection at work
AloneWire(c) == FramesOf(proto.n, proto.bo, wlog[c]) \o InFlight(c)

\* the state of connection c, its writer, its reader, their calls and buffer
ConnState(c) ==
  <<wire[c], rpos[c], wlog[c], writers[c], readers[c], wt[c], rt[c], inbuf[c]>>

\* C11: distinct connections are independent. With two connections, each
\* with its own writer and reader from one descriptor, under every
\* interleaving each connection carries exactly the bytes its own
\* WritePacket calls produce, each incoming buffer holds exactly the payload
\* of the frame its own ReadPacket consumed from its own connection, and a
\* step of one connection's calls changes nothing of the other: not its
\* bytes, its writer's or reader's scratch buffer, its calls or its buffer.
C11_Independent ==
  /\ [](\A c \in ConnIds :
          /\ wire[c] = AloneWire(c)
          /\ (rt[c].pc = "done" /\ rt[c].err = "nil" /\ rt[c].size > 0) =>
               inbuf[c] = [len |-> rt[c].size,
                           data |-> SubSeq(wire[c], rt[c].start + proto.n + 1,
                                           rt[c].start + proto.n + rt[c].size)])
  /\ [][\A c \in ConnIds : \A d \in ConnIds \ {c} :
          (wt'[d] # wt[d] \/ rt'[d] # rt[d]) => ConnState(c)' = ConnState(c)]_vars

\* both connections are in the middle of a write and of a read at once, each
\* reader having taken bytes of its own frame
C11_Witness ==
  /\ wt[1].pc = "wpayload" /\ wt[1].buf = PatA(MaxLen)
  /\ wt[2].pc = "wpayload" /\ wt[2].buf = Hello
  /\ rt[1].pc = "rpayload" /\ rt[1].size = MaxLen
  /\ rt[2].pc = "rpayload" /\ rt[2].size = 5
  /\ writers[1].head # writers[2].head

\* ---- C12
\* the number of bytes that the calls of log have put on a stream with
\* headers of w bytes
RECURSIVE FramesLen(_, _)
FramesLen(w, log) ==
  IF log = <<>> THEN 0
  ELSE (IF Head(log).err = "nil" THEN w + Len(Head(log).buf) ELSE 0)
       + FramesLen(w, Tail(log))

\* the WritePacket calls on the connection, the running one included
AllCalls ==
  wlog[1] \o (IF W1.pc \in {"whead", "wpayload"}
              THEN <<[buf |-> W1.buf, err |-> "nil"]>>
              ELSE <<>>)

\* where the frame of the i-th call starts on the stream
FrameStart(i) == FramesLen(Wid, SubSeq(AllCalls, 1, i - 1))

\* the calls whose frame starts where the running or last ReadPacket started
FramesAtStart ==
  {i \in 1..Len(AllCalls) : AllCalls[i].err = "nil" /\ FrameStart(i) = R1.start}

\* a ReadPacket call starts after one that has returned
NextRead == R1.pc = "done" /\ rt'[1].pc = "rhead"

\* C12: frame boundaries are preserved over any sequence of calls. With one
\* writer and one reader of the same width, byte order and limit on a stream
\* that does not fail, every ReadPacket starts at the first byte of a frame
\* (or at the end of the stream), decodes the length of that frame's payload
\* whatever the header buffer held from the call before, takes no byte beyond
\* that frame, and returns nil having taken exactly the frame; the call after
\* it starts at the first byte after the frame.
C12_FrameBoundaries ==
  /\ []((R1.pc # "idle" /\ writers[1].made
         /\ writers[1].MaxPacketSize = readers[1].MaxPacketSize) =>
          /\ R1.start = FramesLen(Wid, AllCalls) \/ FramesAtStart # {}
          /\ \A i \in FramesAtStart :
               LET p == AllCalls[i].buf
               IN /\ Consumed <= Wid + Len(p)
                  /\ R1.size # NoSize => R1.size = Len(p)
                  /\ R1.pc = "done" =>
                       /\ R1.err = "nil"
                       /\ Consumed = Wid + Len(p)
                       /\ Len(p) > 0 => inbuf[1].data = p)
  /\ [][(NextRead /\ R1.err = "nil") =>
          rt'[1].start = R1.start + Wid + R1.size]_vars

\* the second ReadPacket has returned the empty second frame after "hello",
\* the header buffer having held 5 from the first call
C12_Witness ==
  /\ Len(wlog[1]) = 2
  /\ wlog[1][1] = [buf |-> Hello, err |-> "nil"]
  /\ wlog[1][2] = [buf |-> <<>>, err |-> "nil"]
  /\ R1.pc = "done"
  /\ writers[1].MaxPacketSize = readers[1].MaxPacketSize
  /\ R1.err = "nil"
  /\ R1.start = Wid + 5
  /\ R1.size = 0
  /\ inbuf[1].data = Hello

\* ---- C13
\* whether the unsigned integer the header h spells in byte order bo is above
\* M, for M below 256
UnsignedAbove(bo, h, M) ==
  LET b == Ordered(bo, h)
  IN \/ \E i \in 1..(Len(b) - 1) : b[i] # 0
     \/ b[Len(b)] > M

\* C13: with a limit M > 0 ReadPacket never calls Prepare with a size outside
\* 1..M: for every width, 8 included, and every header a peer can send, a
\* header whose unsigned value is above M gives PacketTooLargeError with the
\* incoming buffer not touched.
C13_PrepareWithinLimit ==
  LET M == readers[1].MaxPacketSize
  IN (R1.pc # "idle" /\ M > 0) =>
       /\ R1.prep > 0 => (R1.size >= 1 /\ R1.size <= M)
       /\ (R1.size # NoSize /\ UnsignedAbove(readers[1].bo, HeaderAtStart, M)) =>
            /\ R1.err = PacketTooLargeError
            /\ R1.prep = 0
            /\ inbuf[1] = R1.buf0

\* ---- C14
\* the writer and the reader exist and have the same limit
SameLimit ==
  /\ writers[1].made
  /\ readers[1].made
  /\ writers[1].MaxPacketSize = readers[1].MaxPacketSize

HeaderSent(t) ==
  SubSeq(wire[wt[t].c], wt[t].hpos + 1, wt[t].hpos + writers[wt[t].w].n)

\* the call of context t has written its header in full
HeaderWritten(t) ==
  \/ wt[t].pc = "wpayload"
  \/ wt[t].pc = "done" /\ wt[t].nwrites >= 1 /\ wt[t].connerr = "nil"

\* the header of writer 1 for a payload of the given size
HeadFor(size) == EncodeHead(writers[1].n, writers[1].bo, size)

\* C15: concurrent reentry on one writer is unsafe because of the shared
\* header buffer. A call that no other call on the writer overlapped between
\* its encodeHead and its header write sends the header of its own length;
\* every byte of a header sent otherwise is that byte of the header of the
\* call's own length or of an overlapping call's length; and whenever two
\* calls are both between encodeHead and the header write, either of them
\* can send the header that encodes the other one's length.
C15_ReentryUnsafe ==
  /\ \A t \in WThreads :
       HeaderWritten(t) =>
         /\ wt[t].rivals = {} => HeaderSent(t) = HeadFor(wt[t].size)
         /\ \A i \in 1..writers[1].n :
              \E s \in {wt[t].size} \cup wt[t].rivals :
                 HeaderSent(t)[i] = HeadFor(s)[i]
  /\ \A t \in WThreads : \A u \in WThreads \ {t} :
       (wt[t].pc = "whead" /\ wt[u].pc = "whead") =>
          ENABLED (WriteHead(t) /\ wire'[1] = wire[1] \o HeadFor(wt[u].size))

\* the call that writes one byte has sent the header for 5, the length of
\* "hello", which the other call, begun after it, is about to write
C15_Witness ==
  /\ wt[1].pc = "wpayload"
  /\ wt[1].buf = PatA(MaxLen)
  /\ wt[2].pc = "whead"
  /\ wt[2].buf = Hello
  /\ wt[2].rivals = {MaxLen}
  /\ writers[1].n = 2
  /\ HeaderSent(1) = HeadFor(5)
  /\ HeaderSent(1) # HeadFor(MaxLen)

\* ---- C16
\* the payload bytes the call of context t has put on the connection
PayloadSent(t) == SubSeq(wire[wt[t].c], wt[t].ppos + 1, wt[t].ppos + wt[t].size)

\* C16: WritePacket is not atomic on the connection. A call with a non-empty
\* payload makes two writes, the header and then the payload, each of which
\* lands on the stream in one piece, the payload at or after the end of the
\* header; nothing holds the connection between them, so while one writer's
\* call is between its two writes another writer's call on the same
\* connection can write its header; and the reader decodes whatever header
\* bytes it finds where it starts.
C16_NotAtomic ==
  /\ \A t \in WThreads :
       (wt[t].pc = "done" /\ wt[t].err = "nil" /\ wt[t].size > 0) =>
          /\ wt[t].nwrites = 2
          /\ HeaderSent(t) = EncodeHead(proto.n, proto.bo, wt[t].size)
          /\ PayloadSent(t) = wt[t].buf
          /\ wt[t].ppos >= wt[t].hpos + proto.n
  /\ \A t \in WThreads : \A u \in WThreads \ {t} :
       (wt[t].pc = "wpayload" /\ wt[u].pc = "whead" /\ wt[u].c = wt[t].c) =>
          ENABLED (WriteHead(u) /\ wt'[u].hpos > wt[t].hpos /\ wt'[u].hpos = Len(wire[1]))
  /\ (R1.pc # "idle" /\ R1.size # NoSize) =>
       R1.size = DecodeHead(Wid, readers[1].bo, HeaderAtStart)

\* the stream holds header 1, header 2, payload 1, payload 2, and the reader
\* has returned nil with a frame that neither writer wrote
C16_Witness ==
  /\ wt[1].pc = "done" /\ wt[1].err = "nil" /\ wt[1].buf = Hello
  /\ wt[2].pc = "done" /\ wt[2].err = "nil" /\ wt[2].buf = PatA(MaxLen)
  /\ wt[1].hpos = 0
  /\ wt[2].hpos = proto.n
  /\ wt[1].ppos = 2 * proto.n
  /\ wt[2].ppos = 2 * proto.n + 5
  /\ R1.pc = "done" /\ R1.err = "nil" /\ R1.start = 0
  /\ R1.size = 5
  /\ inbuf[1].data # Hello
  /\ inbuf[1].data # PatA(MaxLen)
  /\ inbuf[1].data = SubSeq(wire[1], proto.n + 1, proto.n + 5)

\* ---- C17
\* the running or last WritePacket has a payload too long for the header,
\* and the writer's limit does not turn it down
TooLongForHeader ==
  /\ W1.pc # "idle"
  /\ Len(W1.buf) >= HeadRange(writers[1].n)
  /\ ~WriterRejects(writers[1].MaxPacketSize, Len(W1.buf))

\* C17: a payload whose length L does not fit the header and that the limit
\* does not reject is written without an error: the header holds L modulo
\* the header's range (for one- and two-byte headers the header of
\* range + x is the header of x) and all L payload bytes follow it.  The
\* reader of the same width that starts at that header gets a frame of
\* L modulo range bytes only, an empty one when L is the range itself, and a
\* ReadPacket that starts inside the payload takes the payload byte it finds
\* there as the header of a further frame.
C17_LengthWraps ==
  /\ \A n \in {1, 2}, bo \in ByteOrders, x \in 0..MaxWrapExtra :
       EncodeHead(n, bo, HeadRange(n) + x) = EncodeHead(n, bo, x)
  /\ TooLongForHeader =>
       /\ W1.err = "nil"
       /\ W1.pc = "done" =>
            /\ W1.nwrites = 2
            /\ Sent = <<Len(W1.buf) % HeadRange(1)>> \o W1.buf
  /\ (R1.pc # "idle" /\ AllCalls # <<>>) =>
       LET p == AllCalls[1].buf
           L == Len(p)
       IN /\ R1.start = 0 =>
               /\ R1.size # NoSize => R1.size = L % HeadRange(1)
               /\ R1.pc = "done" =>
                    /\ R1.err = "nil"
                    /\ Consumed = 1 + (L % HeadRange(1))
                    /\ R1.size > 0 => inbuf[1].data = SubSeq(p, 1, R1.size)
          /\ (R1.start >= 1 /\ R1.start <= L /\ R1.size # NoSize) =>
               R1.size = p[R1.start]

\* a payload of 256 bytes went out behind the header 00; the first
\* ReadPacket returned an empty frame and the second, started on the first
\* payload byte, has returned as well
C17_Witness ==
  /\ W1.pc = "done"
  /\ W1.err = "nil"
  /\ Len(W1.buf) = HeadRange(1)
  /\ wire[1][1] = 0
  /\ Len(wire[1]) = 1 + HeadRange(1)
  /\ R1.pc = "done"
  /\ R1.err = "nil"
  /\ R1.start = 1
  /\ rpos[1] = 2

\* ---- C18
\* C18: ReadPacket returns the plain end-of-stream error io.EOF only when the
\* stream ended before the call had taken any byte of a frame; when the
\* stream ends after at least one byte of the frame, in the header, between
\* header and payload or in the payload, the call returns another error.
C18_EOFOnlyAtBoundary ==
  (R1.pc = "done" /\ R1.err = EOF) => Consumed = 0

====
